---- MODULE Spec2Model ----
(***************************************************************************)
(* Model of the rately executors: RatelyExecutor (concurrent policy) and   *)
(* SerialRatelyExecutor (serial policy).  Both share add / onWakeUp /      *)
(* start / stop / executorHasStarted and differ in the body of the         *)
(* onWakeUp loop.  JavaScript runs one synchronous call to completion, so   *)
(* a public call together with every call nested in it (a workFn that      *)
(* calls add() again, the wake up that add() triggers) is one action; the  *)
(* promise continuations (.then callbacks) are separate actions that run   *)
(* before any timer callback or promise settlement from outside.           *)
(***************************************************************************)
EXTENDS Integers, Sequences, FiniteSets, TLC

\* ---- bounds of the model ------------------------------------------------
MaxJobs == 3          \* jobs submitted over a run
MaxArgs == 2          \* jobs passed to one add() call
MaxCap == 3           \* largest maxOperationsPerInterval tried
WindowLen == 2        \* rateLimitIntervalMs passed as an option, in clock units
Buffer == 1           \* bufferMs passed as an option, in clock units
MaxRecorded == 2      \* jobs submitted over a run that keeps cbLog

Policies == {"concurrent", "serial"}

VARIABLES
  policy,                    \* which executor class was constructed
  maxOperationsPerInterval,  \* field, fixed at construction
  rateLimitIntervalMs,       \* field, fixed at construction
  bufferMs,                  \* field, fixed at construction
  intervalId,                \* 0 models undefined / null
  timers,                    \* live setInterval timers: id -> clock units until due
  waitingQueue,              \* [end of q, ..., front of q], of job ids
  numOperationsActive,
  serialPromise,             \* serial: "resolved", "pending" or "rejected"
  links,                     \* serial: chained links whose first callback has not run
  jobs,                      \* job id -> status; ids are submission order
  recent,                    \* history: ages, youngest first, of the slots reserved
                             \* less than rateLimitIntervalMs clock units ago
  dequeued,                  \* history: job ids in the order pop() returned them
  undefinedRuns,             \* history: performJob(undefined) calls
  nestedTick,                \* history: onWakeUp was entered while onWakeUp was running
  callOf,                    \* history: job id -> number of the add() call that passed it
  heldForTick,               \* history: jobs add() left queued for the next wake up
  now,                       \* the wall clock in clock units, NoClock when the run keeps none
  dequeuedAt,                \* history: the value of now at each pop() of dequeued
  recording,                 \* whether the run keeps cbLog; fixed at construction
  cbLog                      \* history: job id -> its cbFn, what its workFn handed
                             \* back, and the arguments of every cbFn call

vars == <<policy, maxOperationsPerInterval, rateLimitIntervalMs, bufferMs, intervalId, timers, waitingQueue,
          numOperationsActive, serialPromise, links, jobs, recent,
          dequeued, undefinedRuns, nestedTick, callOf, heldForTick,
          now, dequeuedAt, recording, cbLog>>

config == <<policy, maxOperationsPerInterval, rateLimitIntervalMs, bufferMs, recording>>

\* the delay start() passes to setInterval
Period == rateLimitIntervalMs + bufferMs

Min(a, b) == IF a < b THEN a ELSE b

\* ---- the executor's mutable state as one value ---------------------------
Cur ==
  [intervalId |-> intervalId, timers |-> timers, waitingQueue |-> waitingQueue,
   numOperationsActive |-> numOperationsActive, serialPromise |-> serialPromise,
   links |-> links, jobs |-> jobs, recent |-> recent, dequeued |-> dequeued,
   undefinedRuns |-> undefinedRuns, nestedTick |-> nestedTick,
   callOf |-> callOf, heldForTick |-> heldForTick,
   now |-> now, dequeuedAt |-> dequeuedAt, cbLog |-> cbLog]

Install(s) ==
  /\ intervalId' = s.intervalId
  /\ timers' = s.timers
  /\ waitingQueue' = s.waitingQueue
  /\ numOperationsActive' = s.numOperationsActive
  /\ serialPromise' = s.serialPromise
  /\ links' = s.links
  /\ jobs' = s.jobs
  /\ recent' = s.recent
  /\ dequeued' = s.dequeued
  /\ undefinedRuns' = s.undefinedRuns
  /\ nestedTick' = s.nestedTick
  /\ callOf' = s.callOf
  /\ heldForTick' = s.heldForTick
  /\ now' = s.now
  /\ dequeuedAt' = s.dequeuedAt
  /\ cbLog' = s.cbLog

\* ---- executorHasStarted / start / stop -----------------------------------
executorHasStarted(s) == s.intervalId # 0

\* setInterval hands out an id no live timer has
NewTimerId(t) == CHOOSE i \in 1..(Cardinality(DOMAIN t) + 1) : i \notin DOMAIN t

\* a start that does not look whether a timer is held already
startUnguarded(s) ==
  LET id == NewTimerId(s.timers)
  IN [s EXCEPT !.intervalId = id, !.timers = (id :> Period) @@ s.timers]

start(s) ==
  IF ~executorHasStarted(s)
  THEN LET id == NewTimerId(s.timers)
       IN [s EXCEPT !.intervalId = id, !.timers = (id :> Period) @@ s.timers]
  ELSE s

\* a stop that also throws the waiting jobs away
stopDropsQueue(s) ==
  IF executorHasStarted(s)
  THEN [s EXCEPT !.timers = [i \in DOMAIN s.timers \ {s.intervalId} |-> s.timers[i]],
                 !.intervalId = 0,
                 !.waitingQueue = <<>>]
  ELSE s

stop(s) ==
  IF executorHasStarted(s)
  THEN [s EXCEPT !.timers = [i \in DOMAIN s.timers \ {s.intervalId} |-> s.timers[i]],
                 !.intervalId = 0]
  ELSE s

\* ---- the queue -----------------------------------------------------------
\* a queue that adds at the wrong end (Array.prototype.push)
unshiftAsPush(q, j) == Append(q, j)

\* Array.prototype.unshift
unshift(q, j) == <<j>> \o q

\* Array.prototype.pop: the removed element (0 models undefined) ...
popValue(q) == IF q = <<>> THEN 0 ELSE q[Len(q)]
\* ... and the array left behind
popRest(q) == IF q = <<>> THEN q ELSE SubSeq(q, 1, Len(q) - 1)

\* jobs.forEach((job) => this.waitingQueue.unshift(job)), for n jobs of call c
RECURSIVE enqueue(_, _, _)
enqueue(s, n, c) ==
  IF n <= 0 THEN s
  ELSE LET id == Len(s.jobs) + 1
       IN enqueue([s EXCEPT !.jobs = Append(@, "queued"),
                            !.callOf = Append(@, c),
                            !.waitingQueue = unshift(@, id)],
                  n - 1, c)

\* add() calls that passed at least one job so far
NumCalls(s) == IF s.callOf = <<>> THEN 0 ELSE s.callOf[Len(s.callOf)]

\* ---- the body of performJob on one workFn outcome ------------------------
\* what a workFn hands back: a plain value, undefined, null or a promise
WorkResults == {"value", "undefined", "null", "promise"}

\* what a promise a workFn returned resolves with
ResolvedValues == {"result", "undefined"}

\* typeof workResult
TypeOf(workResult) ==
  CASE workResult = "undefined" -> "undefined"
    [] workResult \in {"null", "promise"} -> "object"
    [] OTHER -> "string"

\* typeof workResult.then, "TypeError" when reading the property throws
TypeOfThen(workResult) ==
  CASE workResult \in {"null", "undefined"} -> "TypeError"
    [] workResult = "promise" -> "function"
    [] OTHER -> "undefined"

\* if (cbFnExists) job.cbFn(value)
callCbFn(s, id, value) ==
  IF s.cbLog[id].cbFnExists
  THEN [s EXCEPT !.cbLog[id].cbArgs = Append(@, value)]
  ELSE s

\* performJob(job) for a job whose workFn throws (outcome "throws") or
\* returns outcome
runWork(s, id, cbFnExists, outcome) ==
  LET s1 == [s EXCEPT !.cbLog = (id :> [cbFnExists |-> cbFnExists,
                                        workResult |-> outcome,
                                        resolved |-> "none",
                                        cbArgs |-> <<>>]) @@ @]
  IN IF outcome = "throws"
     THEN [s1 EXCEPT !.jobs[id] = "failed"]
     ELSE IF TypeOf(outcome) = "object" /\ TypeOfThen(outcome) = "TypeError"
     THEN [s1 EXCEPT !.jobs[id] = "failed"]
     ELSE IF TypeOf(outcome) = "object" /\ TypeOfThen(outcome) = "function"
     THEN [s1 EXCEPT !.jobs[id] = "running"]
     ELSE callCbFn([s1 EXCEPT !.jobs[id] = "settled"], id, outcome)

\* ---- add / onWakeUp / performJob -----------------------------------------
\* A workFn is the caller's code: what it does is decided when it is called,
\* so these operators yield the SET of states the call can end in.
\* depth is the number of onWakeUp calls on the JavaScript stack.
RECURSIVE add(_, _, _), onWakeUp(_, _), wakeLoop(_, _, _), performJob(_, _, _)

\* job.workFn() and the synchronous part of performJob; id = 0 is undefined.
\* The workFn returns a plain value (settled: cbFn called, promise resolved),
\* returns a promise (running), makes performJob throw (failed: the workFn
\* throws, or returns null, whose .then cannot be read), or first calls add()
\* with one more job and then returns a plain value.
\* In a recorded run the outcomes are those of runWork for every workFn
\* outcome and every job with and without a cbFn.
performJob(s, id, depth) ==
  IF id = 0
  THEN {[s EXCEPT !.undefinedRuns = @ + 1]}           \* TypeError: rejected promise
  ELSE IF recording
  THEN {runWork(s, id, cbFnExists, outcome) :
          cbFnExists \in BOOLEAN, outcome \in WorkResults \cup {"throws"}}
  ELSE {[s EXCEPT !.jobs[id] = "settled"],
        [s EXCEPT !.jobs[id] = "running"],
        [s EXCEPT !.jobs[id] = "failed"]}
       \cup (IF Len(s.jobs) < MaxJobs
             THEN {[t EXCEPT !.jobs[id] = "settled"] :
                     t \in add([s EXCEPT !.jobs[id] = "running"], 1, depth)}
             ELSE {})

\* performJob(this.waitingQueue.pop())
performPopped(s, depth) ==
  LET id == popValue(s.waitingQueue)
      s1 == [s EXCEPT !.waitingQueue = popRest(@),
                      !.dequeued = IF id = 0 THEN @ ELSE Append(@, id),
                      !.dequeuedAt = IF id = 0 THEN @ ELSE Append(@, s.now)]
  IN performJob(s1, id, depth)

\* a serial loop body that runs the job at once instead of chaining it
loopBodyUnchained(s, depth) ==
  performPopped([s EXCEPT !.numOperationsActive = @ + 1, !.recent = <<0>> \o @], depth + 1)

\* one iteration of the for loop of onWakeUp
loopBody(s, depth) ==
  LET s1 == [s EXCEPT !.numOperationsActive = @ + 1, !.recent = <<0>> \o @]
  IN IF policy = "concurrent"
     THEN performPopped(s1, depth + 1)
     ELSE {[s1 EXCEPT !.links = @ + 1]}

wakeLoop(s, n, depth) ==
  IF n <= 0 THEN {s}
  ELSE UNION {wakeLoop(t, n - 1, depth) : t \in loopBody(s, depth)}

\* a batch size that forgets the capacity
numWorkToChainAnyCapacity(s) == Len(s.waitingQueue)

numWorkToChain(s) ==
  Min(Len(s.waitingQueue), maxOperationsPerInterval - s.numOperationsActive)

\* a wake up that gives the timer up when it finds nothing to do
onWakeUpStopsWhenIdle(s, depth) ==
  IF numWorkToChain(s) <= 0
  THEN {stop([s EXCEPT !.nestedTick = @ \/ (depth > 0), !.heldForTick = {}])}
  ELSE wakeLoop([s EXCEPT !.nestedTick = @ \/ (depth > 0), !.heldForTick = {}],
                numWorkToChain(s), depth)

onWakeUp(s, depth) ==
  wakeLoop([s EXCEPT !.nestedTick = @ \/ (depth > 0), !.heldForTick = {}],
           numWorkToChain(s), depth)

add(s, n, depth) ==
  LET s1 == enqueue(s, n, NumCalls(s) + 1)
  IN IF executorHasStarted(s1)
     THEN {[s1 EXCEPT !.heldForTick = @ \cup (Len(s.jobs) + 1 .. Len(s1.jobs))]}
     ELSE {start(t) : t \in onWakeUp(s1, depth)}

\* ---- promise continuations -----------------------------------------------
Settled(s) == {j \in 1..Len(s.jobs) : s.jobs[j] = "settled"}

\* a continuation is queued: it runs before any timer or outside settlement
MicrotaskPending(s) ==
  \/ Settled(s) # {}
  \/ policy = "serial" /\ s.serialPromise = "resolved" /\ s.links > 0

\* ---- initial state: after the constructor --------------------------------
\* the value of now in a run whose wall clock is not kept
NoClock == -1

defaultOptions ==
  [maxOperationsPerInterval |-> 10, rateLimitIntervalMs |-> 10000, bufferMs |-> 200]

\* Object.assign(target, source): the keys of source overwrite those of target
ObjectAssign(target, source) ==
  [k \in DOMAIN target \cup DOMAIN source |->
     IF k \in DOMAIN source THEN source[k] ELSE target[k]]

\* new RatelyExecutor() / new RatelyExecutor({})
NoOptions == [k \in {} |-> 0]

\* the options objects the runs pass: all three options, capacity 0..MaxCap
SuppliedOptions ==
  {[maxOperationsPerInterval |-> c, rateLimitIntervalMs |-> WindowLen, bufferMs |-> Buffer] :
     c \in 0..MaxCap}

Constructed(options) ==
  /\ policy \in Policies
  /\ LET finalOptions == ObjectAssign(defaultOptions, options)
     IN /\ maxOperationsPerInterval = finalOptions["maxOperationsPerInterval"]
        /\ rateLimitIntervalMs = finalOptions["rateLimitIntervalMs"]
        /\ bufferMs = finalOptions["bufferMs"]
  /\ intervalId = 0
  /\ timers = <<>>
  /\ waitingQueue = <<>>
  /\ numOperationsActive = 0
  /\ serialPromise = "resolved"
  /\ links = 0
  /\ jobs = <<>>
  /\ recent = <<>>
  /\ dequeued = <<>>
  /\ undefinedRuns = 0
  /\ nestedTick = FALSE
  /\ callOf = <<>>
  /\ heldForTick = {}
  /\ dequeuedAt = <<>>
  /\ cbLog = <<>>

Init ==
  \E options \in SuppliedOptions :
    Constructed(options) /\ now = NoClock /\ recording = FALSE

\* ---- public calls --------------------------------------------------------
Add(n) ==
  /\ Len(jobs) + n <= MaxJobs
  /\ \E t \in add(Cur, n, 0) : Install(t)
  /\ UNCHANGED config

Start ==
  /\ Install(start(Cur))
  /\ UNCHANGED config

Stop ==
  /\ Install(stop(Cur))
  /\ UNCHANGED config

\* ---- the interval timer fires: wakeUpFn ----------------------------------
\* an interval that leaves bufferMs out
TimerFireNoBuffer(id) ==
  /\ id \in DOMAIN timers
  /\ timers[id] = 0
  /\ ~MicrotaskPending(Cur)
  /\ \E t \in onWakeUp([Cur EXCEPT !.timers[id] = rateLimitIntervalMs], 0) : Install(t)
  /\ UNCHANGED config

TimerFire(id) ==
  /\ id \in DOMAIN timers
  /\ timers[id] = 0
  /\ ~MicrotaskPending(Cur)
  /\ \E t \in onWakeUp([Cur EXCEPT !.timers[id] = Period], 0) : Install(t)
  /\ UNCHANGED config

\* ---- serial: the first callback of the next chain link -------------------
\* this.serialPromise.then(() => this.performJob(this.waitingQueue.pop()))
\* a chain whose next link does not wait for the link before it
ChainReadyNoWait(s) == s.serialPromise # "rejected" /\ s.links > 0

\* a chain that goes on with the next link after a failure
ChainReadyAfterFailure(s) == s.serialPromise # "pending" /\ s.links > 0

ChainReady(s) == s.serialPromise = "resolved" /\ s.links > 0

LinkRun ==
  /\ policy = "serial"
  /\ ChainReady(Cur)
  /\ LET id == popValue(waitingQueue)
     IN \E t \in performPopped([Cur EXCEPT !.links = @ - 1], 0) :
          Install([t EXCEPT !.serialPromise =
                     IF id = 0 \/ t.jobs[id] = "failed" THEN "rejected" ELSE "pending"])
  /\ UNCHANGED config

\* ---- a job's promise settles ---------------------------------------------
\* (at any moment: the promise may be settled already when workFn returns it,
\* or be settled later by a timer or another event)
\* workResult.then((result) => { if (cbFnExists) job.cbFn(result) })
\* a then callback that leaves the cbFn out
thenCallbackWithoutCbFn(s, j, result) ==
  IF recording
  THEN [s EXCEPT !.jobs[j] = "settled", !.cbLog[j].resolved = result]
  ELSE [s EXCEPT !.jobs[j] = "settled"]

thenCallback(s, j, result) ==
  IF recording
  THEN callCbFn([s EXCEPT !.jobs[j] = "settled", !.cbLog[j].resolved = result], j, result)
  ELSE [s EXCEPT !.jobs[j] = "settled"]

Resolve(j) ==
  /\ j \in 1..Len(jobs)
  /\ jobs[j] = "running"
  /\ \E result \in (IF recording THEN ResolvedValues ELSE {"result"}) :
       Install(thenCallback(Cur, j, result))
  /\ UNCHANGED config

\* a rejection that is caught and gives the slot back
RejectReleasesSlot(j) ==
  /\ j \in 1..Len(jobs)
  /\ jobs[j] = "running"
  /\ Install([Cur EXCEPT !.jobs[j] = "failed",
                         !.numOperationsActive = @ - 1])
  /\ UNCHANGED config

\* a rejection skips every then callback down the chain
Reject(j) ==
  /\ j \in 1..Len(jobs)
  /\ jobs[j] = "running"
  /\ Install([Cur EXCEPT !.jobs[j] = "failed",
                         !.serialPromise = IF policy = "serial" THEN "rejected" ELSE @])
  /\ UNCHANGED config

\* .then(() => { this.numOperationsActive -= 1 })
Complete(j) ==
  /\ j \in Settled(Cur)
  /\ Install([Cur EXCEPT !.jobs[j] = "done",
                         !.numOperationsActive = @ - 1,
                         !.serialPromise = IF policy = "serial" THEN "resolved" ELSE @])
  /\ UNCHANGED config

\* ---- the clock -----------------------------------------------------------
InWindow(age) == age < rateLimitIntervalMs

\* d clock units pass, no timer being due before they are over
AdvanceBy(d) ==
  /\ ~MicrotaskPending(Cur)
  /\ d >= 1
  /\ \A id \in DOMAIN timers : timers[id] >= d
  /\ timers' = [id \in DOMAIN timers |-> timers[id] - d]
  /\ recent' = SelectSeq([i \in 1..Len(recent) |-> recent[i] + d], InWindow)
  /\ now' = IF now = NoClock THEN NoClock ELSE now + d
  /\ UNCHANGED <<config, intervalId, waitingQueue,
                 numOperationsActive, serialPromise, links, jobs, dequeued,
                 undefinedRuns, nestedTick, callOf, heldForTick, dequeuedAt, cbLog>>

Advance == AdvanceBy(1)

Next ==
  \/ \E n \in 0..MaxArgs : Add(n)
  \/ Start
  \/ Stop
  \/ \E id \in DOMAIN timers : TimerFire(id)
  \/ LinkRun
  \/ \E j \in 1..Len(jobs) : Resolve(j)
  \/ \E j \in 1..Len(jobs) : Reject(j)
  \/ \E j \in 1..Len(jobs) : Complete(j)
  \/ Advance

Spec == Init /\ [][Next]_vars

\* ---- derived notions used by the properties ------------------------------
\* jobs whose workFn has been invoked
Started == {j \in 1..Len(jobs) : jobs[j] # "queued"}

\* jobs whose work (and callback) is still going on, or whose completion
\* continuation has not run yet
InFlight == {j \in 1..Len(jobs) : jobs[j] \in {"running", "settled"}}

\* jobs that were started and have not completed (a failed job never does)
StartedNotCompleted == {j \in 1..Len(jobs) : jobs[j] \in {"running", "settled", "failed"}}

\* C1: for both policies, in every reachable state
\* 0 <= numOperationsActive <= maxOperationsPerInterval.
C1_ActiveWithinCapacity ==
  /\ 0 <= numOperationsActive
  /\ numOperationsActive <= maxOperationsPerInterval

\* C2: jobs leave the waiting queue in exactly the order they were submitted:
\* the k-th job pop() returns is the k-th job submitted (argument order within
\* a call, call order across calls), and everything still waiting was
\* submitted after everything dequeued and sits in the queue in submission order.
C2_DequeueOrderIsSubmissionOrder ==
  /\ \A i \in 1..Len(dequeued) : dequeued[i] = i
  /\ \A i \in 1..Len(waitingQueue) : waitingQueue[i] > Len(dequeued)
  /\ \A i, k \in 1..Len(waitingQueue) : i < k => waitingQueue[i] > waitingQueue[k]

\* two jobs of one add() call and a job of a later call have all been dequeued
C2_Witness ==
  /\ Len(dequeued) >= 3
  /\ \E a, b, c \in 1..Len(dequeued) :
       a < b /\ b < c /\ callOf[a] = callOf[b] /\ callOf[b] < callOf[c]

\* C3: serial policy: at every instant at most one job's work is in flight.
C3_SerialAtMostOneInFlight ==
  policy = "serial" => Cardinality(InFlight) <= 1

\* serial, more than one slot reserved, a second job running after a first finished
C3_Witness ==
  /\ policy = "serial"
  /\ numOperationsActive > 1
  /\ Len(dequeued) >= 2
  /\ \E j \in 1..Len(jobs) : jobs[j] = "running"

\* C4: serial policy: a job's workFn is invoked only after the work and the
\* callback of every job submitted before it have completed.
C4_SerialExecutionOrder ==
  policy = "serial" =>
    \A b \in Started : \A a \in 1..(b - 1) : jobs[a] \in {"settled", "done"}

\* capacity 1 puts two jobs of one add() call in different wake ups; the second runs
C4_Witness ==
  /\ policy = "serial"
  /\ maxOperationsPerInterval = 1
  /\ Len(jobs) >= 2
  /\ callOf[1] = callOf[2]
  /\ jobs[2] = "running"

\* ---- steps that run onWakeUp ---------------------------------------------
\* nothing was ever submitted, no timer is held, no slot is taken
Fresh == jobs = <<>> /\ intervalId = 0 /\ numOperationsActive = 0

Max(a, b) == IF a > b THEN a ELSE b

StartedInStep == Len(dequeued') - Len(dequeued)

\* C5: the first add() of n >= 1 jobs on a fresh executor reserves min(n,
\* maxOperationsPerInterval) slots during the call, the concurrent policy has
\* invoked the workFn of exactly that many jobs when add() returns, and the
\* timer is held afterwards.
C5_FirstAddRunsBurst ==
  [][\A n \in 1..MaxArgs :
       (Fresh /\ Add(n)) =>
         /\ numOperationsActive' = Min(n, maxOperationsPerInterval)
         /\ policy = "concurrent" => StartedInStep = Min(n, maxOperationsPerInterval)
         /\ intervalId' # 0
         /\ intervalId' \in DOMAIN timers']_vars

\* C6: add() on a started executor only appends: numOperationsActive, the
\* timer, the jobs already there and the set of started jobs are unchanged,
\* and a job appended this way stays queued until the next wake up.
C6_AddWhenStartedOnlyAppends ==
  /\ [](\A j \in heldForTick : jobs[j] = "queued")
  /\ [][\A n \in 0..MaxArgs :
          (intervalId # 0 /\ Add(n)) =>
            /\ numOperationsActive' = numOperationsActive
            /\ intervalId' = intervalId /\ timers' = timers
            /\ dequeued' = dequeued /\ links' = links
            /\ Len(jobs') = Len(jobs) + n
            /\ \A j \in 1..Len(jobs) : jobs'[j] = jobs[j]
            /\ \A j \in Len(jobs) + 1 .. Len(jobs') : jobs'[j] = "queued"
            /\ Len(waitingQueue') = Len(waitingQueue) + n
            /\ \A i \in 1..Len(waitingQueue) : waitingQueue'[i + n] = waitingQueue[i]]_vars

\* C7: add() never runs onWakeUp while onWakeUp is running, and one wake up
\* starts no more jobs than maxOperationsPerInterval - numOperationsActive
\* as computed when it began.
C7_NoWakeUpInsideWakeUp ==
  /\ [](~nestedTick)
  /\ [][((\E id \in DOMAIN timers : TimerFire(id))
           \/ (intervalId = 0 /\ \E n \in 0..MaxArgs : Add(n)))
        => StartedInStep <= Max(0, maxOperationsPerInterval - numOperationsActive)]_vars

\* C8: at most maxOperationsPerInterval slots are reserved within any window
\* of rateLimitIntervalMs clock units (stated for the runs in which no wake up was
\* nested in another one, the subject of C7).
C8_WindowReservationsWithinCapacity ==
  ~nestedTick => Len(recent) <= maxOperationsPerInterval

\* what C9 says of a wake up that finds qlen jobs queued
CarryOver(qlen) ==
  LET p == Cardinality(StartedNotCompleted)
  IN (qlen >= maxOperationsPerInterval /\ p <= maxOperationsPerInterval) =>
       /\ StartedInStep = maxOperationsPerInterval - p
       /\ p = maxOperationsPerInterval =>
            /\ numOperationsActive' = numOperationsActive
            /\ Len(waitingQueue') = qlen

\* C9: concurrent policy: a wake up that finds p jobs of earlier wake ups
\* still pending and at least maxOperationsPerInterval jobs queued starts
\* exactly maxOperationsPerInterval - p jobs, and nothing when p is the capacity.
C9_CarryOver ==
  [][policy = "concurrent" =>
       /\ (\E id \in DOMAIN timers : TimerFire(id)) => CarryOver(Len(waitingQueue))
       /\ \A n \in 0..MaxArgs :
            (intervalId = 0 /\ Add(n)) => CarryOver(Len(waitingQueue) + n)]_vars

\* C10: concurrent policy: numOperationsActive is the number of jobs that
\* were started and have not completed, and a completion takes exactly one off.
C10_ActiveCountsStartedJobs ==
  /\ [](policy = "concurrent" => numOperationsActive = Cardinality(StartedNotCompleted))
  /\ [][\A j \in 1..Len(jobs) :
          Complete(j) => numOperationsActive' = numOperationsActive - 1]_vars

\* C11: stop() cancels the held timer and clears intervalId, changes nothing
\* when no timer is held, calling it twice is the same as calling it once,
\* it leaves the waiting queue, numOperationsActive and every job as they
\* are, and after it a running job can still resolve and a finished job can
\* still release its slot.
C11_StopOnlyCancelsTimer ==
  /\ [][Stop =>
          /\ intervalId' = 0
          /\ DOMAIN timers' = DOMAIN timers \ {intervalId}
          /\ \A id \in DOMAIN timers' : timers'[id] = timers[id]
          /\ intervalId = 0 => UNCHANGED vars
          /\ UNCHANGED <<waitingQueue, numOperationsActive, jobs, links,
                         serialPromise, dequeued>>]_vars
  /\ [](stop(stop(Cur)) = stop(Cur))
  /\ [](intervalId = 0 =>
          \A j \in 1..Len(jobs) :
            /\ jobs[j] = "running" => ENABLED Resolve(j)
            /\ jobs[j] = "settled" => ENABLED Complete(j))

\* stopped after work was handed in: jobs wait, one runs, one is about to
\* release its slot
C11_Witness ==
  /\ intervalId = 0 /\ timers = <<>>
  /\ waitingQueue # <<>>
  /\ \E j \in 1..Len(jobs) : jobs[j] = "running"
  /\ \E j \in 1..Len(jobs) : jobs[j] = "settled"

\* a step of add(), with any number of jobs
AnyAdd == \E n \in 0..MaxArgs : Add(n)

\* C12: while no timer is held, and until add() or start() starts the executor
\* again, no job's workFn is invoked (steps in which a workFn calls add() are
\* submissions and are left out).
C12_StopStopsNewJobs ==
  [][(intervalId = 0 /\ ~AnyAdd /\ Len(jobs') = Len(jobs)) => StartedInStep = 0]_vars

\* what onWakeUp reserves when it finds qlen jobs queued
BatchSize(qlen) == Max(0, Min(qlen, maxOperationsPerInterval - numOperationsActive))

\* C13: after stop() executorHasStarted() is false, and add() of n >= 1 jobs on
\* a stopped executor whose queue is not empty runs onWakeUp at once: it
\* reserves min(queue length, free capacity) slots, the concurrent policy
\* starts that many jobs, oldest first, and the timer is held again with a
\* full period to go.
C13_AddAfterStopRestarts ==
  /\ [][Stop => intervalId' = 0]_vars
  /\ [][\A n \in 1..MaxArgs :
          (intervalId = 0 /\ waitingQueue # <<>> /\ Add(n)) =>
            /\ numOperationsActive' = numOperationsActive + BatchSize(Len(waitingQueue) + n)
            /\ policy = "concurrent" =>
                 /\ StartedInStep = BatchSize(Len(waitingQueue) + n)
                 /\ \A i \in Len(dequeued) + 1 .. Len(dequeued') : dequeued'[i] = i
            /\ intervalId' # 0
            /\ DOMAIN timers' = {intervalId'}
            /\ timers'[intervalId'] = Period]_vars

\* C14: at most one interval timer is alive, executorHasStarted() is true
\* exactly when it is and intervalId names it; start() on a started executor
\* changes nothing, start() otherwise creates the timer; the timer is created
\* and re-armed with rateLimitIntervalMs + bufferMs clock units to go.
C14_AtMostOneTimer ==
  /\ [](/\ Cardinality(DOMAIN timers) <= 1
        /\ (intervalId # 0) <=> (DOMAIN timers # {})
        /\ intervalId # 0 => DOMAIN timers = {intervalId}
        /\ \A id \in DOMAIN timers : timers[id] \in 0..(rateLimitIntervalMs + bufferMs))
  /\ [](start(start(Cur)) = start(Cur))
  /\ [][Start =>
          /\ intervalId # 0 => UNCHANGED vars
          /\ intervalId = 0 =>
               (intervalId' # 0 /\ timers' = (intervalId' :> rateLimitIntervalMs + bufferMs))]_vars
  /\ [][\A id \in DOMAIN timers' :
          (id \notin DOMAIN timers \/ timers'[id] > timers[id]) =>
            timers'[id] = rateLimitIntervalMs + bufferMs]_vars

\* the first burst ran a workFn that called add(): add() called start() twice
\* and one timer is held
C14_Witness ==
  /\ nestedTick
  /\ intervalId # 0
  /\ Cardinality(DOMAIN timers) = 1
  /\ timers[intervalId] < rateLimitIntervalMs + bufferMs

\* C15: add() with no jobs changes nothing, started or not.
C15_AddNothingIsNoOp ==
  [][Add(0) => UNCHANGED <<waitingQueue, numOperationsActive, intervalId, timers,
                           jobs, dequeued, links, serialPromise>>]_vars

\* ---- one add() at time 0, every job done by the next wake up --------------
\* (the run of the tests "should correctly execute work over time")
MaxTime == MaxJobs * Period

\* no workFn threw or rejected, and none called add()
Behaved ==
  /\ \A j \in 1..Len(jobs) : jobs[j] # "failed"
  /\ NumCalls(Cur) <= 1

ExampleAdd(n) == now = 0 /\ Fresh /\ Add(n) /\ Behaved'

ExampleTimerFire(id) == TimerFire(id) /\ Behaved'

ExampleLinkRun == LinkRun /\ Behaved'

\* the clock reaches the time of a wake up only when every reserved job is done
ExampleAdvance ==
  /\ now < MaxTime
  /\ \A id \in DOMAIN timers : timers[id] = 1 => numOperationsActive = 0
  /\ Advance

InitExample ==
  \E options \in SuppliedOptions :
    Constructed(options) /\ options.maxOperationsPerInterval >= 1 /\ now = 0
    /\ recording = FALSE

NextExample ==
  \/ \E n \in 1..MaxJobs : ExampleAdd(n)
  \/ \E id \in DOMAIN timers : ExampleTimerFire(id)
  \/ ExampleLinkRun
  \/ \E j \in 1..Len(jobs) : Resolve(j)
  \/ \E j \in 1..Len(jobs) : Complete(j)
  \/ ExampleAdvance

SpecExample == InitExample /\ [][NextExample]_vars

\* the time of the wake up that reserves the j-th job of the call
StartTick(j) == ((j - 1) \div maxOperationsPerInterval) * Period

\* C16 as stated: job j starts at StartTick(j), never between two wake ups,
\* and has started once that time is past.
C16_JobStartsAtItsTick ==
  /\ \A i \in 1..Len(dequeued) : dequeuedAt[i] = StartTick(dequeued[i])
  /\ \A j \in 1..Len(jobs) : now >= StartTick(j) + Period => jobs[j] # "queued"

\* C16 amended: the concurrent policy starts job j at StartTick(j); the serial
\* policy starts the first job of each batch at StartTick(j) and every other
\* job j when job j - 1 has completed, at or after StartTick(j) and before
\* the next wake up; a job has started once the next wake up is due.
C16_StartTimesByPolicy ==
  /\ \A i \in 1..Len(dequeued) :
       LET j == dequeued[i]
       IN /\ policy = "concurrent" => dequeuedAt[i] = StartTick(j)
          /\ (j - 1) % maxOperationsPerInterval = 0 => dequeuedAt[i] = StartTick(j)
          /\ StartTick(j) <= dequeuedAt[i] /\ dequeuedAt[i] < StartTick(j) + Period
          /\ (policy = "serial" /\ j > 1) => jobs[j - 1] = "done"
  /\ \A j \in 1..Len(jobs) : now >= StartTick(j) + Period => jobs[j] # "queued"

\* serial, capacity 2: the second job started between two wake ups, the third
\* at the second wake up
C16_Witness ==
  /\ policy = "serial"
  /\ maxOperationsPerInterval = 2
  /\ Len(dequeued) >= 3
  /\ dequeuedAt[2] > 0
  /\ dequeuedAt[3] = Period

\* ---- an executor constructed without options ------------------------------
InitDefaults == Constructed(NoOptions) /\ now = NoClock /\ recording = FALSE

\* the clock moves on to the time the next timer is due (a whole window when
\* no timer is held)
AdvanceSteps ==
  IF DOMAIN timers = {} THEN {rateLimitIntervalMs}
  ELSE {timers[id] : id \in DOMAIN timers}

NextDefaults ==
  \/ \E n \in 0..MaxArgs : Add(n)
  \/ Start
  \/ Stop
  \/ \E id \in DOMAIN timers : TimerFire(id)
  \/ LinkRun
  \/ \E j \in 1..Len(jobs) : Resolve(j)
  \/ \E j \in 1..Len(jobs) : Reject(j)
  \/ \E j \in 1..Len(jobs) : Complete(j)
  \/ \E d \in AdvanceSteps : AdvanceBy(d)

SpecDefaults == InitDefaults /\ [][NextDefaults]_vars

\* C18: on an executor constructed without options, start() and add() create
\* the timer with 10000 + 100 ms to go, and it is re-armed with as much.
C18_DefaultIntervalIs10100 ==
  [][\A id \in DOMAIN timers' :
       (id \notin DOMAIN timers \/ timers'[id] > timers[id]) =>
         timers'[id] = 10000 + 100]_vars

\* C17: with maxOperationsPerInterval = 0 no workFn is ever invoked, every
\* submitted job stays in the waiting queue, numOperationsActive stays 0 and
\* nothing fails.
C17_ZeroCapacityStarves ==
  maxOperationsPerInterval = 0 =>
    /\ dequeued = <<>>
    /\ numOperationsActive = 0
    /\ links = 0
    /\ undefinedRuns = 0
    /\ serialPromise = "resolved"
    /\ Len(waitingQueue) = Len(jobs)
    /\ \A j \in 1..Len(jobs) : jobs[j] = "queued"

\* capacity 0, every job the run may submit is queued, and onWakeUp has run
\* since the last one was added
C17_Witness ==
  /\ maxOperationsPerInterval = 0
  /\ Len(jobs) = MaxJobs
  /\ Len(waitingQueue) = MaxJobs
  /\ heldForTick = {}
  /\ intervalId # 0 /\ timers[intervalId] < rateLimitIntervalMs + bufferMs

\* what C19 says of a wake up that finds qlen jobs queued: BatchSize(qlen)
\* slots are reserved and as many jobs have left the queue when it returns
\* (jobs a workFn submitted meanwhile have joined it)
TickDequeues(qlen) ==
  /\ numOperationsActive' = numOperationsActive + BatchSize(qlen)
  /\ Len(waitingQueue') =
       Len(waitingQueue) + (Len(jobs') - Len(jobs)) - BatchSize(qlen)

\* C19: for both policies a wake up reserves min(queue length,
\* maxOperationsPerInterval - numOperationsActive) slots and takes as many
\* jobs off the queue before it returns (wake ups with another wake up
\* nested in them, the subject of C7, are left aside).
C19_TickDequeuesItsBatch ==
  [][~nestedTick' =>
       /\ (\E id \in DOMAIN timers : TimerFire(id)) => TickDequeues(Len(waitingQueue))
       /\ \A n \in 0..MaxArgs :
            (intervalId = 0 /\ Add(n)) => TickDequeues(Len(waitingQueue) + n)]_vars

\* C20: every job popped off the queue was submitted and is popped once, no
\* performJob call is made without a job, every queued job is in the queue
\* exactly once, and a job is either queued or was popped, never both.
C20_EachJobRunsOnce ==
  /\ undefinedRuns = 0
  /\ \A i \in 1..Len(dequeued) : dequeued[i] \in 1..Len(jobs)
  /\ \A i, k \in 1..Len(dequeued) : i # k => dequeued[i] # dequeued[k]
  /\ \A i, k \in 1..Len(waitingQueue) : i # k => waitingQueue[i] # waitingQueue[k]
  /\ \A j \in 1..Len(jobs) :
       /\ jobs[j] = "queued" <=> (\E i \in 1..Len(waitingQueue) : waitingQueue[i] = j)
       /\ jobs[j] # "queued" <=> (\E i \in 1..Len(dequeued) : dequeued[i] = j)

\* C23: intervalId and the timer change only in a step of start(), stop() or
\* add() (add() called by a workFn included); the timer callback re-arms the
\* timer it was called by and leaves intervalId alone, a job's completion
\* touches neither, and a due timer fires whatever the queue and
\* numOperationsActive are.
C23_TimerChangedOnlyByStartAddStop ==
  /\ [][(intervalId' # intervalId \/ DOMAIN timers' # DOMAIN timers) =>
          (Start \/ Stop \/ AnyAdd \/ Len(jobs') > Len(jobs))]_vars
  /\ [][\A id \in DOMAIN timers :
          TimerFire(id) => /\ intervalId' = intervalId
                           /\ DOMAIN timers' = DOMAIN timers
                           /\ timers'[id] = Period]_vars
  /\ [][\A j \in 1..Len(jobs) :
          (jobs'[j] # jobs[j] /\ (Resolve(j) \/ Reject(j) \/ Complete(j)))
            => UNCHANGED <<intervalId, timers>>]_vars
  /\ [](\A id \in DOMAIN timers :
          (timers[id] = 0 /\ ~MicrotaskPending(Cur)) => ENABLED TimerFire(id))

\* the timer is due on an executor with nothing queued and nothing active
\* whose jobs are all done
C23_Witness ==
  /\ intervalId # 0 /\ timers[intervalId] = 0
  /\ jobs # <<>> /\ \A j \in 1..Len(jobs) : jobs[j] = "done"
  /\ waitingQueue = <<>> /\ numOperationsActive = 0
  /\ ENABLED TimerFire(intervalId)

\* C24: serial policy: the chained links that have not run yet never
\* outnumber the jobs in the waiting queue, and no link pops an empty queue.
C24_LinksWithinQueue ==
  policy = "serial" => (links <= Len(waitingQueue) /\ undefinedRuns = 0)

\* C27: serial policy: once the chain is rejected it stays rejected, no
\* workFn is invoked any more, numOperationsActive never goes down, and it
\* goes up only as far as maxOperationsPerInterval.
C27_SerialChainStaysFailed ==
  /\ [][(policy = "serial" /\ serialPromise = "rejected") =>
          /\ serialPromise' = "rejected"
          /\ StartedInStep = 0 /\ undefinedRuns' = undefinedRuns
          /\ \A j \in 1..Len(jobs) : jobs'[j] = jobs[j]
          /\ numOperationsActive' >= numOperationsActive
          /\ numOperationsActive' <= Max(numOperationsActive, maxOperationsPerInterval)]_vars
  /\ [][\A j \in 1..Len(jobs) :
          (policy = "serial" /\ Reject(j)) => serialPromise' = "rejected"]_vars
  /\ [][(policy = "serial" /\ LinkRun /\ \E j \in 1..Len(jobs) : jobs[j] # "failed" /\ jobs'[j] = "failed")
          => serialPromise' = "rejected"]_vars

\* a job failed, a job submitted after the failure is still queued after a
\* wake up reserved a slot for it, and every slot is taken
C27_Witness ==
  /\ policy = "serial" /\ serialPromise = "rejected"
  /\ \E j \in 1..Len(jobs) : jobs[j] = "failed" /\ \E k \in j + 1..Len(jobs) : jobs[k] = "queued"
  /\ links > 0 /\ heldForTick = {}
  /\ numOperationsActive = maxOperationsPerInterval

\* ---- runs in which stop() is never called and no job fails ----------------
NoFailure == \A j \in 1..Len(jobs) : jobs[j] # "failed"

LiveAdd(n) == Add(n) /\ NoFailure'

LiveTimerFire(id) == TimerFire(id) /\ NoFailure'

LiveLinkRun == LinkRun /\ NoFailure'

InitLive ==
  \E options \in SuppliedOptions :
    Constructed(options) /\ options.maxOperationsPerInterval >= 1 /\ now = NoClock
    /\ recording = FALSE

NextLive ==
  \/ \E n \in 0..MaxArgs : LiveAdd(n)
  \/ Start
  \/ \E id \in DOMAIN timers : LiveTimerFire(id)
  \/ LiveLinkRun
  \/ \E j \in 1..Len(jobs) : Resolve(j)
  \/ \E j \in 1..Len(jobs) : Complete(j)
  \/ Advance

\* the event loop runs every continuation and every due timer callback, the
\* clock moves on, and every promise a workFn returned is resolved
Fairness ==
  /\ WF_vars(\E id \in DOMAIN timers : LiveTimerFire(id))
  /\ WF_vars(LiveLinkRun)
  /\ WF_vars(Advance)
  /\ \A j \in 1..MaxJobs : WF_vars(Resolve(j)) /\ WF_vars(Complete(j))

\* ---- runs that keep cbLog -------------------------------------------------
InitRunner ==
  \E options \in SuppliedOptions :
    Constructed(options) /\ now = NoClock /\ recording = TRUE

\* jobs whose performJob promise was rejected
FailedJobs == {j \in 1..Len(jobs) : jobs[j] = "failed"}

RunnerAdd(n) == Add(n) /\ Len(jobs') <= MaxRecorded

\* the runs call stop() once a job has failed
RunnerStop == Stop /\ FailedJobs # {}

NextRunner ==
  \/ \E n \in 0..MaxArgs : RunnerAdd(n)
  \/ Start
  \/ RunnerStop
  \/ \E id \in DOMAIN timers : TimerFire(id)
  \/ LinkRun
  \/ \E j \in 1..Len(jobs) : Resolve(j)
  \/ \E j \in 1..Len(jobs) : Reject(j)
  \/ \E j \in 1..Len(jobs) : Complete(j)
  \/ \E d \in AdvanceSteps : AdvanceBy(d)

SpecRunner == InitRunner /\ [][NextRunner]_vars

\* the values a workFn can hand back that are not a pending computation
ImmediateValues == WorkResults \ {"promise"}

\* C21: a job whose workFn returned an immediate value (null and undefined
\* included) has its cbFn, if it has one, called once with exactly that
\* value, performJob completes successfully, and the job's slot is released
\* by the continuation that follows.
C21_ImmediateValueReachesCallback ==
  \A j \in DOMAIN cbLog :
    cbLog[j].workResult \in ImmediateValues =>
      /\ jobs[j] \in {"settled", "done"}
      /\ cbLog[j].cbArgs = IF cbLog[j].cbFnExists THEN <<cbLog[j].workResult>> ELSE <<>>
      /\ jobs[j] = "settled" => ENABLED Complete(j)

\* C22: a job whose workFn returned a promise has its cbFn, if it has one,
\* called exactly once, with the value the promise resolved with, not before
\* the promise resolved and before the job is completed; a job without a cbFn
\* gets no call; numOperationsActive goes down only in the completion of a
\* job whose then callback has run, by one, and that step calls no cbFn.
C22_CallbackBeforeCompletion ==
  /\ [](\A j \in DOMAIN cbLog :
          cbLog[j].workResult = "promise" =>
            /\ jobs[j] = "running" =>
                 cbLog[j].cbArgs = <<>> /\ cbLog[j].resolved = "none"
            /\ jobs[j] \in {"settled", "done"} =>
                 /\ cbLog[j].resolved \in ResolvedValues
                 /\ cbLog[j].cbArgs =
                      IF cbLog[j].cbFnExists THEN <<cbLog[j].resolved>> ELSE <<>>)
  /\ [][\A j \in 1..Len(jobs) :
          Complete(j) => /\ cbLog' = cbLog
                         /\ numOperationsActive' = numOperationsActive - 1]_vars
  /\ [][numOperationsActive' < numOperationsActive =>
          \E j \in 1..Len(jobs) :
            /\ jobs[j] = "settled" /\ jobs'[j] = "done"
            /\ \A k \in 1..Len(jobs) \ {j} : jobs'[k] = jobs[k]]_vars

\* two jobs whose promises resolved with different values are completed,
\* one with a cbFn and one without
C22_Witness ==
  \E j, k \in DOMAIN cbLog :
    /\ jobs[j] = "done" /\ jobs[k] = "done"
    /\ cbLog[j].workResult = "promise" /\ cbLog[k].workResult = "promise"
    /\ cbLog[j].cbFnExists /\ cbLog[j].cbArgs = <<"result">>
    /\ ~cbLog[k].cbFnExists /\ cbLog[k].resolved = "undefined"
    /\ numOperationsActive = 0

\* C26: concurrent policy: a job whose workFn threw or whose promise
\* rejected keeps its slot for good and its cbFn is never called; the other
\* jobs can still resolve and complete; once maxOperationsPerInterval jobs
\* have failed no workFn is invoked any more.
C26_ConcurrentFailureKeepsSlot ==
  /\ [](policy = "concurrent" =>
          /\ numOperationsActive >= Cardinality(FailedJobs)
          /\ \A j \in FailedJobs : cbLog[j].cbArgs = <<>>
          /\ \A j \in 1..Len(jobs) :
               /\ jobs[j] = "running" => ENABLED Resolve(j)
               /\ jobs[j] = "settled" => ENABLED Complete(j))
  /\ [][policy = "concurrent" =>
          \A j \in FailedJobs : jobs'[j] = "failed" /\ cbLog'[j] = cbLog[j]]_vars
  /\ [][(policy = "concurrent" /\ Cardinality(FailedJobs) >= maxOperationsPerInterval)
          => StartedInStep = 0]_vars

\* as many jobs as there are slots have failed, one of them by a rejected
\* promise and with a cbFn, and a job is still queued after a wake up
C26_Witness ==
  /\ policy = "concurrent" /\ maxOperationsPerInterval >= 1
  /\ Cardinality(FailedJobs) = maxOperationsPerInterval
  /\ \E j \in FailedJobs : cbLog[j].cbFnExists /\ cbLog[j].workResult = "promise"
  /\ \E k \in 1..Len(jobs) : jobs[k] = "queued"
  /\ heldForTick = {}

SpecLive == InitLive /\ [][NextLive]_vars /\ Fairness

\* C25: with maxOperationsPerInterval >= 1, stop() never called and no job
\* failing, every submitted job's workFn is eventually invoked, and
\* numOperationsActive is 0 again and again (for good once nothing more is
\* submitted).
C25_EveryJobRunsAndSlotsReturn ==
  /\ \A j \in 1..MaxJobs : (Len(jobs) >= j) ~> (Len(jobs) >= j /\ jobs[j] # "queued")
  /\ []<>(numOperationsActive = 0)
====
